---- MODULE Spec2Model ----
(***************************************************************************)
(* Model of ecbm6040/patching/patchloader.py: the Patch dataset, the       *)
(* patching function (training and evaluation mode), the DataLoader stream *)
(* it returns, and depatching.                                             *)
(*                                                                         *)
(* Tensors are not stored voxel by voxel.  A tensor of patches is known    *)
(* by its geometry (shape, window size, stride) and each voxel of a patch, *)
(* of the accumulator and of the returned image is computed on demand by   *)
(* the operators below, following the index arithmetic of the code.        *)
(* All coordinates are 0-based as in the code; sequences are 1-based.      *)
(***************************************************************************)
EXTENDS Integers, Sequences, FiniteSets, TLC

\* ---------------------------------------------------------------- bounds
MaxBatch == 2
MaxDim == 4
MaxTrainCube == 2
MaxPatches == 4
MaxPatchSize == 2
MaxMargin == 3
UsageDen == 4

\* ------------------------------------------------------ program constants
MaxIntensity == 4095
DefaultCube == 64
DefaultMargin == 3
image_size == <<192, 320, 320>>
padding == <<20, 17, 17>>
idx_mine == {}
EvalCubeSizes == {DefaultCube, 2 * DefaultCube}

VARIABLES call, pc, tiles, patch_indices, sampler, cursor, stream, dp, loop, writes, image

vars == <<call, pc, tiles, patch_indices, sampler, cursor, stream, dp, loop, writes, image>>

\* ---------------------------------------------------------------- helpers
Min(a, b) == IF a <= b THEN a ELSE b
Max(a, b) == IF a >= b THEN a ELSE b

\* Python int(n / d) for d > 0: truncation toward zero.
Trunc(n, d) == IF n >= 0 THEN n \div d ELSE -((-n) \div d)

\* Python s[:n]: a negative n counts from the end.
PySlicePrefixMutClamp(s, n) == SubSeq(s, 1, Min(Max(n, 0), Len(s)))
PySlicePrefix(s, n) ==
  IF n >= 0 THEN SubSeq(s, 1, Min(n, Len(s)))
  ELSE SubSeq(s, 1, Max(Len(s) + n, 0))

RECURSIVE Flatten(_)
Flatten(ss) ==
  IF Len(ss) = 0 THEN <<>>
  ELSE IF Len(ss) = 1 THEN ss[1]
  ELSE LET h == Len(ss) \div 2 IN
         Flatten(SubSeq(ss, 1, h)) \o Flatten(SubSeq(ss, h + 1, Len(ss)))

Range(s) == {s[n] : n \in 1..Len(s)}

\* ------------------------------------------------------------ input data
\* lr_data / hr_data: raw 12-bit samples, a fixed function of the coordinate.
LinearIndex(b, z, x, y) == ((b * call.D + z) * call.H + x) * call.W + y
LrVoxel(b, z, x, y) == (LinearIndex(b, z, x, y) + 1) % (MaxIntensity + 1)
HrVoxel(b, z, x, y) == (3 * LinearIndex(b, z, x, y) + 2) % (MaxIntensity + 1)

\* Patch.transform: image.float() / 4095.0, kept as an exact fraction.
transform(v) == [num |-> v, den |-> MaxIntensity]
Zero == [num |-> 0, den |-> 1]
SameValue(a, b) == a.num * b.den = b.num * a.den

\* ------------------------------------------------------- tiling geometry
\* Tensor.unfold(dim, size, step): number of windows along one axis.
UnfoldCountMutNoLast(len, size, step) == (len - size) \div step
UnfoldCount(len, size, step) == (len - size) \div step + 1

StrideMutSmaller(c) == IF c.is_training THEN c.cube_size - 1 ELSE c.cube_size - 2 * c.margin
Stride(c) == IF c.is_training THEN c.cube_size ELSE c.cube_size - 2 * c.margin

Pad(c) == IF c.is_training THEN <<0, 0, 0>> ELSE padding

\* Shape of the tensor that is unfolded: the volume, zero-padded in evaluation.
TiledShape(c) == <<c.D + 2 * Pad(c)[1], c.H + 2 * Pad(c)[2], c.W + 2 * Pad(c)[3]>>

Unfoldable(c) ==
  /\ Stride(c) > 0
  /\ \A a \in 1..3 : TiledShape(c)[a] >= c.cube_size

Grid(c) == [a \in 1..3 |-> UnfoldCount(TiledShape(c)[a], c.cube_size, Stride(c))]

NumTiles(c) == IF Unfoldable(c) THEN c.B * Grid(c)[1] * Grid(c)[2] * Grid(c)[3] ELSE 0

\* .contiguous().view(-1, cube, cube, cube): flat index of window (b, iz, ix, iy).
FlatIndexMutSwap(g, b, iz, ix, iy) == ((b * g[1] + iz) * g[3] + iy) * g[2] + ix
FlatIndex(g, b, iz, ix, iy) == ((b * g[1] + iz) * g[2] + ix) * g[3] + iy

\* The window (b, iz, ix, iy) that the view puts at flat index f.
PatchCoord(f) ==
  CHOOSE w \in (0..(call.B - 1)) \X (0..(tiles.grid[1] - 1)) \X (0..(tiles.grid[2] - 1))
                 \X (0..(tiles.grid[3] - 1)) :
    FlatIndex(tiles.grid, w[1], w[2], w[3], w[4]) = f

\* Offset of the window at flat index f in the unfolded tensor.
PatchOffset(f) == [a \in 1..3 |-> PatchCoord(f)[a + 1] * tiles.stride]

\* lr_data_padded[b, z, x, y]: zeros, with lr_data copied into the interior.
TiledLr(b, z, x, y) ==
  LET p == Pad(call) IN
    IF /\ z >= p[1] /\ z < call.D + p[1]
       /\ x >= p[2] /\ x < call.H + p[2]
       /\ y >= p[3] /\ y < call.W + p[3]
    THEN LrVoxel(b, z - p[1], x - p[2], y - p[3])
    ELSE 0

TiledHr(b, z, x, y) ==
  LET p == Pad(call) IN
    IF /\ z >= p[1] /\ z < call.D + p[1]
       /\ x >= p[2] /\ x < call.H + p[2]
       /\ y >= p[3] /\ y < call.W + p[3]
    THEN HrVoxel(b, z - p[1], x - p[2], y - p[3])
    ELSE 0

\* Patch.__getitem__(idx) at local coordinate (a1, a2, a3): the (lr, hr) pair.
GetItem(idx, a1, a2, a3) ==
  LET w == PatchCoord(idx)
      o == PatchOffset(idx)
  IN <<transform(TiledLr(w[1], o[1] + a1, o[2] + a2, o[3] + a3)),
       transform(TiledHr(w[1], o[1] + a1, o[2] + a2, o[3] + a3))>>

\* ------------------------------------------------------------------ calls
TrainingCalls ==
  {c \in [is_training : {TRUE}, B : 1..MaxBatch, D : 1..MaxDim, H : 1..MaxDim,
          W : 1..MaxDim, cube_size : 1..MaxTrainCube, margin : {DefaultMargin},
          usage : (-1)..(UsageDen + 1), patch_size : 1..MaxPatchSize] :
     NumTiles(c) <= MaxPatches}

EvalCalls ==
  [is_training : {FALSE}, B : 1..MaxBatch, D : {image_size[1]}, H : {image_size[2]},
   W : {image_size[3]}, cube_size : EvalCubeSizes, margin : 1..MaxMargin,
   usage : {UsageDen}, patch_size : 1..MaxPatchSize]

NoTiles == [n |-> 0, grid |-> <<0, 0, 0>>, shape |-> <<0, 0, 0>>, stride |-> 0]
NoDp == [batch_size |-> 0, P |-> 0, cropped |-> 0, merged_size |-> <<0, 0, 0>>,
         grid |-> <<0, 0, 0>>, n4 |-> 0]
NoImage == [shape |-> <<0, 0, 0>>, off |-> <<0, 0, 0>>]

Init ==
  /\ call \in TrainingCalls \cup EvalCalls
  /\ pc = "start"
  /\ tiles = NoTiles
  /\ patch_indices = <<>>
  /\ sampler = <<>>
  /\ cursor = 0
  /\ stream = <<>>
  /\ dp = NoDp
  /\ loop = <<0, 0, 0>>
  /\ writes = <<>>
  /\ image = NoImage

\* --------------------------------------------------------------- patching
Tiling(c) == [n |-> NumTiles(c), grid |-> Grid(c), shape |-> TiledShape(c),
              stride |-> Stride(c)]

\* np.random.shuffle(indices): any ordering of the set.
Shuffles(S) ==
  {s \in [1..Cardinality(S) -> S] : \A m, n \in 1..Cardinality(S) : m # n => s[m] # s[n]}

\* int(patch_split * num_patches), usage = call.usage / UsageDen.
PatchTakeMutCeil(c) == Trunc(c.usage * NumTiles(c) + UsageDen - 1, UsageDen)
PatchTake(c) == Trunc(c.usage * NumTiles(c), UsageDen)

\* SequentialSampler(data_source): iter(range(len(data_source))).
SequentialSampler(data_source) == [p \in 1..Len(data_source) |-> p - 1]

\* unfold raises when the window is larger than the dimension.
PatchingError ==
  /\ pc = "start"
  /\ ~Unfoldable(call)
  /\ pc' = "error"
  /\ UNCHANGED <<call, tiles, patch_indices, sampler, cursor, stream, dp, loop, writes, image>>

PatchingTraining ==
  /\ pc = "start"
  /\ call.is_training
  /\ Unfoldable(call)
  /\ \E indices \in Shuffles((0..(NumTiles(call) - 1)) \ idx_mine) :
       /\ patch_indices' = PySlicePrefix(indices, PatchTake(call))
       /\ sampler' = SequentialSampler(PySlicePrefix(indices, PatchTake(call)))
  /\ tiles' = Tiling(call)
  /\ cursor' = 0
  /\ stream' = <<>>
  /\ pc' = "loading"
  /\ UNCHANGED <<call, dp, loop, writes, image>>

PatchingEvaluation ==
  /\ pc = "start"
  /\ ~call.is_training
  /\ Unfoldable(call)
  /\ tiles' = Tiling(call)
  /\ patch_indices' = <<>>
  /\ sampler' = [p \in 1..NumTiles(call) |-> p - 1]
  /\ cursor' = 0
  /\ stream' = <<>>
  /\ pc' = "loading"
  /\ UNCHANGED <<call, dp, loop, writes, image>>

\* One step of iterating the DataLoader: the next patch_size sampler entries.
NextBatch ==
  /\ pc = "loading"
  /\ cursor < Len(sampler)
  /\ LET upto == Min(cursor + call.patch_size, Len(sampler)) IN
       /\ stream' = Append(stream, SubSeq(sampler, cursor + 1, upto))
       /\ cursor' = upto
  /\ UNCHANGED <<call, pc, tiles, patch_indices, sampler, dp, loop, writes, image>>

EndOfStream ==
  /\ pc = "loading"
  /\ cursor = Len(sampler)
  /\ pc' = "loaded"
  /\ UNCHANGED <<call, tiles, patch_indices, sampler, cursor, stream, dp, loop, writes, image>>

\* ------------------------------------------------------------- depatching
\* The patches handed to depatching: the stream, concatenated, each patch
\* unchanged (entry n is the dataset index of the n-th patch).
Patches == Flatten(stream)

\* real_tmp = tmp[:, :, margin:-margin, ...]: edge left after trimming.
Cropped(cube_size, margin) == Max(cube_size - 2 * margin, 0)

MergedSize(margin) == [a \in 1..3 |-> image_size[a] + 2 * (padding[a] - margin)]

\* nz, nx, ny = int(merged_image_size[a] / cube_size_cropped).
GridCountMutCeil(size, cropped) == (size + cropped - 1) \div cropped
GridCount(size, cropped) == Trunc(size, cropped)

DepatchPlan(batch_size) ==
  LET cc == Cropped(call.cube_size, call.margin)
      ms == MergedSize(call.margin)
      g == [a \in 1..3 |-> GridCount(ms[a], cc)]
      P == Len(Patches) \div batch_size
  IN [batch_size |-> batch_size, P |-> P, cropped |-> cc, merged_size |-> ms, grid |-> g,
      n4 |-> IF g[1] > 0 /\ g[2] > 0 THEN P \div (g[1] * g[2]) ELSE 0]

\* The three .view calls succeed only when the element counts divide.
ViewsOk(batch_size) ==
  LET d == DepatchPlan(batch_size) IN
    /\ Len(Patches) > 0
    /\ d.cropped > 0
    /\ Len(Patches) % batch_size = 0
    /\ d.grid[1] > 0
    /\ d.P % d.grid[1] = 0
    /\ d.grid[2] > 0
    /\ (d.P \div d.grid[1]) % d.grid[2] = 0

DepatchingBegin ==
  /\ pc = "loaded"
  /\ ~call.is_training
  /\ \E batch_size \in 1..MaxBatch :
       /\ ViewsOk(batch_size)
       /\ dp' = DepatchPlan(batch_size)
  /\ loop' = <<0, 0, 0>>
  /\ writes' = <<>>
  /\ pc' = "merging"
  /\ UNCHANGED <<call, tiles, patch_indices, sampler, cursor, stream, image>>

DepatchingViewError ==
  /\ pc = "loaded"
  /\ ~call.is_training
  /\ \E batch_size \in 1..MaxBatch :
       /\ ~ViewsOk(batch_size)
       /\ dp' = [NoDp EXCEPT !.batch_size = batch_size]
  /\ pc' = "error"
  /\ UNCHANGED <<call, tiles, patch_indices, sampler, cursor, stream, loop, writes, image>>

\* The slice cube_size_cropped*i : cube_size_cropped*(i+1), as <<start, stop>>.
BlockSliceMutOverlap(cropped, i) == <<(cropped - 1) * i, (cropped - 1) * i + cropped>>
BlockSlice(cropped, i) == <<cropped * i, cropped * (i + 1)>>

\* Position, within one batch element of real_tmp, of real_tmp[:, i, j, k].
CellIndex(d, i, j, k) == (i * d.grid[2] + j) * d.n4 + k

\* The counters after one pass of the innermost loop body.
Advance(d, l) ==
  IF l[3] + 1 < d.grid[3] THEN <<l[1], l[2], l[3] + 1>>
  ELSE IF l[2] + 1 < d.grid[2] THEN <<l[1], l[2] + 1, 0>>
  ELSE <<l[1] + 1, 0, 0>>

LoopDone(d, l) == l[1] >= d.grid[1] \/ d.grid[2] = 0 \/ d.grid[3] = 0

\* One pass of the loop body: merged_image[:, block] = real_tmp[:, i, j, k].
MergeStep ==
  /\ pc = "merging"
  /\ ~LoopDone(dp, loop)
  /\ loop[3] < dp.n4
  /\ writes' = Append(writes,
       [cell |-> loop,
        lo |-> [a \in 1..3 |-> BlockSlice(dp.cropped, loop[a])[1]],
        hi |-> [a \in 1..3 |-> BlockSlice(dp.cropped, loop[a])[2]],
        q |-> CellIndex(dp, loop[1], loop[2], loop[3])])
  /\ loop' = Advance(dp, loop)
  /\ UNCHANGED <<call, pc, tiles, patch_indices, sampler, cursor, stream, dp, image>>

\* real_tmp[:, i, j, k] with k beyond the fourth dimension: IndexError.
MergeIndexError ==
  /\ pc = "merging"
  /\ ~LoopDone(dp, loop)
  /\ loop[3] >= dp.n4
  /\ pc' = "error"
  /\ UNCHANGED <<call, tiles, patch_indices, sampler, cursor, stream, dp, loop, writes, image>>

\* image = merged_image[:, (padding-margin):-(padding-margin), ...]; return image.
DepatchingReturn ==
  /\ pc = "merging"
  /\ LoopDone(dp, loop)
  /\ image' = [shape |-> [a \in 1..3 |->
                 Max(dp.merged_size[a] - 2 * (padding[a] - call.margin), 0)],
               off |-> [a \in 1..3 |-> padding[a] - call.margin]]
  /\ pc' = "done"
  /\ UNCHANGED <<call, tiles, patch_indices, sampler, cursor, stream, dp, loop, writes>>

\* Voxel (a1, a2, a3) of trimmed patch number q of batch element b.
TrimmedVoxel(b, q, a1, a2, a3) ==
  GetItem(Patches[b * dp.P + q + 1], a1 + call.margin, a2 + call.margin, a3 + call.margin)[1]

Covers(w, z, x, y) ==
  /\ w.lo[1] <= z /\ z < w.hi[1]
  /\ w.lo[2] <= x /\ x < w.hi[2]
  /\ w.lo[3] <= y /\ y < w.hi[3]

\* merged_image[b, z, x, y]: zero until written, then the last value written.
MergedVoxel(b, z, x, y) ==
  LET ws == {n \in 1..Len(writes) : Covers(writes[n], z, x, y)} IN
    IF ws = {} THEN Zero
    ELSE LET n == CHOOSE m \in ws : \A o \in ws : o <= m
             w == writes[n]
         IN TrimmedVoxel(b, w.q, z - w.lo[1], x - w.lo[2], y - w.lo[3])

\* image[b, z, x, y] of the returned tensor.
ImageVoxel(b, z, x, y) ==
  MergedVoxel(b, z + image.off[1], x + image.off[2], y + image.off[3])

Next ==
  \/ PatchingError
  \/ PatchingTraining
  \/ PatchingEvaluation
  \/ NextBatch
  \/ EndOfStream
  \/ DepatchingBegin
  \/ DepatchingViewError
  \/ MergeStep
  \/ MergeIndexError
  \/ DepatchingReturn

Spec == Init /\ [][Next]_vars

\* ----------------------------------------------------------------- claims
Patched == pc \in {"loading", "loaded", "merging", "done"}
Canonical == ~call.is_training /\ call.cube_size = DefaultCube /\ call.margin = DefaultMargin
Depatched == pc \in {"merging", "done"}
ProbeColumns(a) == {0, image_size[a] \div 2, image_size[a] - 1}
Divides(d, n) == d > 0 /\ n % d = 0

\* C1: round trip. For the canonical volume with cube_size 64 and margin 3,
\* evaluation-mode patching followed by depatching of the unchanged patches
\* with the same batch size returns a (batch, 192, 320, 320) volume whose
\* every voxel equals the original voxel divided by 4095.
C1_RoundTripIdentity ==
  (pc = "done" /\ Canonical /\ dp.batch_size = call.B) =>
    /\ image.shape = image_size
    /\ \A b \in 0..(call.B - 1), z \in 0..(image_size[1] - 1),
          x \in ProbeColumns(2), y \in ProbeColumns(3) :
         SameValue(ImageVoxel(b, z, x, y), transform(LrVoxel(b, z, x, y)))

C3_StreamFollowsShuffle ==
  (call.is_training /\ pc = "loaded") => Patches = patch_indices

\* C4: in evaluation mode the windows cover the padded volume exactly: on
\* each axis the last window ends at the last voxel of the padded volume,
\* and every coordinate of the original volume lies in some window.
C4_WindowsCoverPadded ==
  (~call.is_training /\ Patched) =>
    \A a \in 1..3 :
      /\ (tiles.grid[a] - 1) * tiles.stride + call.cube_size = tiles.shape[a]
      /\ \A v \in padding[a]..(padding[a] + image_size[a] - 1) :
           \E i \in 0..(tiles.grid[a] - 1) :
             i * tiles.stride <= v /\ v < i * tiles.stride + call.cube_size

\* C5: for usage in (0,1] training-mode patching samples floor(usage *
\* num_patches) indices, all in [0, num_patches) minus the exclusion set and
\* pairwise different, and the stream delivers that many pairs.
C5_UsageFraction ==
  (call.is_training /\ pc \in {"loading", "loaded"} /\ call.usage > 0
     /\ call.usage <= UsageDen) =>
    /\ Len(patch_indices) = (call.usage * tiles.n) \div UsageDen
    /\ Range(patch_indices) \subseteq ((0..(tiles.n - 1)) \ idx_mine)
    /\ \A m, n \in 1..Len(patch_indices) : m # n => patch_indices[m] # patch_indices[n]
    /\ (pc = "loaded" => Len(Patches) = (call.usage * tiles.n) \div UsageDen)

C5_Witness ==
  /\ call.is_training /\ pc = "loaded"
  /\ call.usage > 0 /\ call.usage < UsageDen
  /\ Len(patch_indices) >= 2 /\ Len(patch_indices) < tiles.n

\* The voxel (b, z, x, y) of the tiled tensor lies in the patch at flat index f.
InPatch(f, b, z, x, y) ==
  /\ PatchCoord(f)[1] = b
  /\ PatchOffset(f)[1] <= z /\ z < PatchOffset(f)[1] + call.cube_size
  /\ PatchOffset(f)[2] <= x /\ x < PatchOffset(f)[2] + call.cube_size
  /\ PatchOffset(f)[3] <= y /\ y < PatchOffset(f)[3] + call.cube_size

\* C6: when D, H and W are multiples of cube_size, training-mode tiling yields
\* (D/cube)*(H/cube)*(W/cube) patches per batch element and every voxel of the
\* volume lies in exactly one patch (so the patches are pairwise disjoint).
C6_TrainingPartition ==
  (call.is_training /\ pc \in {"loading", "loaded"}
     /\ Divides(call.cube_size, call.D) /\ Divides(call.cube_size, call.H)
     /\ Divides(call.cube_size, call.W)) =>
    /\ tiles.n = call.B * (call.D \div call.cube_size) * (call.H \div call.cube_size)
                   * (call.W \div call.cube_size)
    /\ \A b \in 0..(call.B - 1), z \in 0..(call.D - 1), x \in 0..(call.H - 1),
          y \in 0..(call.W - 1) :
         Cardinality({f \in 0..(tiles.n - 1) : InPatch(f, b, z, x, y)}) = 1

C6_Witness ==
  /\ call.is_training /\ pc = "loaded" /\ call.cube_size = 2
  /\ call.D = 4 /\ call.H = 4 /\ call.W = 2 /\ tiles.n = 4

\* Lexicographic successor of a window position in a grid g with B elements.
RasterNext(g, w) ==
  IF w[4] + 1 < g[3] THEN <<w[1], w[2], w[3], w[4] + 1>>
  ELSE IF w[3] + 1 < g[2] THEN <<w[1], w[2], w[3] + 1, 0>>
  ELSE IF w[2] + 1 < g[1] THEN <<w[1], w[2] + 1, 0, 0>>
  ELSE <<w[1] + 1, 0, 0, 0>>

\* C7: evaluation-mode patching delivers the patches in raster order (batch,
\* depth, height, width), and depatching with the same batch size writes the
\* patch it takes for grid cell (i, j, k) of batch element b at the block
\* whose offset is (i, j, k) * stride, the offset that very patch was cut at.
C7_OrderAgreement ==
  (~call.is_training /\ Depatched /\ dp.batch_size = call.B) =>
    /\ Patches = [p \in 1..tiles.n |-> p - 1]
    /\ (writes = <<>> =>
          /\ PatchCoord(0) = <<0, 0, 0, 0>>
          /\ \A f \in 0..(tiles.n - 2) :
               PatchCoord(f + 1) = RasterNext(tiles.grid, PatchCoord(f)))
    /\ (writes # <<>> =>
          LET w == writes[Len(writes)] IN
            \A b \in 0..(call.B - 1) :
              LET f == Patches[b * dp.P + w.q + 1] IN
                /\ PatchCoord(f) = <<b, w.cell[1], w.cell[2], w.cell[3]>>
                /\ \A a \in 1..3 : w.lo[a] = w.cell[a] * tiles.stride
                /\ \A a \in 1..3 : w.lo[a] = PatchOffset(f)[a])

C7_Witness ==
  /\ ~call.is_training /\ pc = "done" /\ dp.batch_size = call.B /\ call.B = 2
  /\ Canonical /\ Len(writes) = 108

\* C8 as stated: a merged dimension that is no multiple of the cropped cube
\* size makes depatching fail, so it never gets to merge or to return.
C8_DivisibilityEnforced ==
  Depatched => \A a \in 1..3 : Divides(dp.cropped, dp.merged_size[a])

\* C8 amended: divisibility is not checked. The grid count on each axis is
\* the truncated quotient floor(merged / cropped); depatching fails only when
\* the number of patches does not fit batch_size * nz * nx * ny, and otherwise
\* merges and returns, never writing an accumulator voxel at or beyond
\* count * cropped on any axis (such voxels keep their zero).
C8_GridTruncated ==
  /\ Depatched =>
       /\ \A a \in 1..3 :
            /\ dp.grid[a] * dp.cropped <= dp.merged_size[a]
            /\ dp.merged_size[a] < (dp.grid[a] + 1) * dp.cropped
       /\ \A n \in 1..Len(writes), a \in 1..3 :
            writes[n].hi[a] <= dp.grid[a] * dp.cropped
       /\ Len(Patches) = dp.batch_size * dp.P
  /\ (pc = "error" /\ ~call.is_training /\ dp.batch_size > 0) =>
       LET cc == call.cube_size - 2 * call.margin
           ms == [a \in 1..3 |-> image_size[a] + 2 * (padding[a] - call.margin)]
       IN Len(Patches) # dp.batch_size * (ms[1] \div cc) * (ms[2] \div cc) * (ms[3] \div cc)

C8_Witness ==
  /\ pc = "done" /\ Canonical
  /\ ~Divides(dp.cropped, dp.merged_size[1])
  /\ SameValue(MergedVoxel(0, dp.merged_size[1] - 1, 0, 0), Zero)
  /\ ~SameValue(MergedVoxel(0, dp.grid[1] * dp.cropped - 1, dp.cropped, dp.cropped), Zero)

Disjoint(v, w) == \E a \in 1..3 : v.hi[a] <= w.lo[a] \/ w.hi[a] <= v.lo[a]

\* C9: the blocks depatching writes for two different grid positions are
\* disjoint, so no accumulator voxel is written twice.
C9_BlocksDisjoint ==
  (Depatched /\ writes # <<>>) =>
    LET w == writes[Len(writes)] IN
      \A n \in 1..(Len(writes) - 1) :
        /\ writes[n].cell # w.cell
        /\ Disjoint(writes[n], w)

C9_Witness == pc = "done" /\ Canonical /\ Len(writes) = 108

UsageOutOfRange == call.usage <= 0 \/ call.usage > UsageDen

\* C10 as stated: training-mode patching with usage outside (0,1] fails.
C10_UsageRejected ==
  (call.is_training /\ UsageOutOfRange /\ pc # "start") => pc = "error"

\* C10 amended: usage is not validated. Training-mode patching of a volume
\* no smaller than the cube returns a stream whatever the usage: with
\* usage > 1 every patch is delivered; with usage <= 0 and
\* t = floor(|usage| * num_patches), nothing when t = 0 and otherwise
\* max(num_patches - t, 0) pairs.
C10_UsageUnchecked ==
  (call.is_training /\ UsageOutOfRange /\ pc # "start") =>
    LET n == call.B * UnfoldCount(call.D, call.cube_size, call.cube_size)
                    * UnfoldCount(call.H, call.cube_size, call.cube_size)
                    * UnfoldCount(call.W, call.cube_size, call.cube_size)
        t == ((-call.usage) * n) \div UsageDen
        want == IF call.usage > UsageDen THEN n
                ELSE IF t = 0 THEN 0 ELSE Max(n - t, 0)
    IN IF call.D >= call.cube_size /\ call.H >= call.cube_size /\ call.W >= call.cube_size
       THEN /\ pc \in {"loading", "loaded"}
            /\ Len(patch_indices) = want
            /\ (pc = "loaded" => Len(Patches) = want)
       ELSE pc = "error"

C10_Witness ==
  /\ call.is_training /\ pc = "loaded" /\ call.usage < 0
  /\ Len(Patches) > 0 /\ Len(Patches) < tiles.n
====
